---- MODULE Spec2Model ----
(***************************************************************************)
(* BootstrapThemeToggler (version with storage encryption): the persistent *)
(* store with its codecs and expiration, the theme resolution, the locale  *)
(* resolution and the run / setLanguage / click operations, as a state     *)
(* machine over the browser's storage, the document and the static _config.*)
(*                                                                         *)
(* A JavaScript string is a sequence of character codes (UTF-16 units,     *)
(* here always below 65536), a byte array a sequence of 0..255.            *)
(***************************************************************************)
EXTENDS Integers, Sequences, FiniteSets, TLC

(***************************************************************************)
(* Characters and string literals                                          *)
(***************************************************************************)
AsciiChars ==
  << " ", "!", "\"", "#", "$", "%", "&", "'", "(", ")", "*", "+", ",", "-", ".", "/",
     "0", "1", "2", "3", "4", "5", "6", "7", "8", "9", ":", ";", "<", "=", ">", "?",
     "@", "A", "B", "C", "D", "E", "F", "G", "H", "I", "J", "K", "L", "M", "N", "O",
     "P", "Q", "R", "S", "T", "U", "V", "W", "X", "Y", "Z", "[", "\\", "]", "^", "_",
     "(grave)", "a", "b", "c", "d", "e", "f", "g", "h", "i", "j", "k", "l", "m", "n", "o",
     "p", "q", "r", "s", "t", "u", "v", "w", "x", "y", "z", "{", "|", "}", "~" >>

\* The character code of a printable ASCII character (codes 32..126 in order; the
\* grave accent, code 96, has no literal here).
CharCodes == [c \in {AsciiChars[i] : i \in 1..Len(AsciiChars)} |->
                31 + (CHOOSE i \in 1..Len(AsciiChars) : AsciiChars[i] = c)]
Ord(c) == CharCodes[c]

\* A string literal, written as the sequence of its characters.
Str(cs) == [i \in 1..Len(cs) |-> Ord(cs[i])]

RECURSIVE Concat(_)
\* Array.prototype.join with the empty separator: the concatenation of a sequence of strings.
Concat(ss) == IF ss = <<>> THEN <<>> ELSE Head(ss) \o Concat(Tail(ss))

\* Whether string s starts with string p, and whether it ends with it.
StartsWith(s, p) == Len(s) >= Len(p) /\ SubSeq(s, 1, Len(p)) = p

\* The rest of s after its first n characters.
Drop(s, n) == SubSeq(s, n + 1, Len(s))

(***************************************************************************)
(* TextEncoder / TextDecoder (UTF-8)                                       *)
(***************************************************************************)
ReplacementChar == 65533

\* The UTF-8 bytes of one character (code below 65536).
Utf8Char(c) ==
  IF c < 128 THEN <<c>>
  ELSE IF c < 2048 THEN <<192 + (c \div 64), 128 + (c % 64)>>
  ELSE <<224 + (c \div 4096), 128 + ((c \div 64) % 64), 128 + (c % 64)>>

\* new TextEncoder().encode(data)
TextEncode(data) == Concat([i \in 1..Len(data) |-> Utf8Char(data[i])])

IsCont(b) == b >= 128 /\ b < 192

RECURSIVE Utf8Decode(_)
\* UTF-8 decoding with U+FFFD for every byte that starts no well-formed
\* sequence of one, two or three bytes.
Utf8Decode(bytes) ==
  IF bytes = <<>> THEN <<>>
  ELSE LET b == bytes[1] IN
    IF b < 128 THEN <<b>> \o Utf8Decode(Tail(bytes))
    ELSE IF b >= 194 /\ b < 224 /\ Len(bytes) >= 2 /\ IsCont(bytes[2])
      THEN <<(b - 192) * 64 + (bytes[2] - 128)>> \o Utf8Decode(Drop(bytes, 2))
    ELSE IF b >= 224 /\ b < 240 /\ Len(bytes) >= 3 /\ IsCont(bytes[2]) /\ IsCont(bytes[3])
            /\ (b - 224) * 4096 + (bytes[2] - 128) * 64 >= 2048
      THEN <<(b - 224) * 4096 + (bytes[2] - 128) * 64 + (bytes[3] - 128)>>
             \o Utf8Decode(Drop(bytes, 3))
    ELSE <<ReplacementChar>> \o Utf8Decode(Tail(bytes))

\* new TextDecoder().decode(bytes): a leading byte order mark is dropped.
TextDecode(bytes) ==
  IF StartsWith(bytes, <<239, 187, 191>>) THEN Utf8Decode(Drop(bytes, 3))
  ELSE Utf8Decode(bytes)

(***************************************************************************)
(* Hex                                                                     *)
(***************************************************************************)
HexDigits == Str(<<"0","1","2","3","4","5","6","7","8","9","a","b","c","d","e","f">>)
UpperHexDigits == Str(<<"0","1","2","3","4","5","6","7","8","9","A","B","C","D","E","F">>)

\* Array.from(bytes).map(byte => byte.toString(16).padStart(2, '0')).join('')
BytesToHex(bytes) ==
  Concat([i \in 1..Len(bytes) |->
            <<HexDigits[(bytes[i] \div 16) + 1], HexDigits[(bytes[i] % 16) + 1]>>])

\* The value of each hex digit, by character code.
HexValues ==
  [c \in {HexDigits[i] : i \in 1..16} \cup {UpperHexDigits[i] : i \in 1..16} |->
     (CHOOSE i \in 1..16 : HexDigits[i] = c \/ UpperHexDigits[i] = c) - 1]
IsHexDigit(c) == c \in DOMAIN HexValues
HexValue(c) == HexValues[c]

\* new Uint8Array([parseInt(group, 16)])[0] for a group of one or two characters
\* that starts with neither white space nor a sign: the longest prefix of hex
\* digits, and 0 (from NaN) when there is none.
ParseHexByte(g) ==
  IF ~IsHexDigit(g[1]) THEN 0
  ELSE IF Len(g) = 2 /\ IsHexDigit(g[2]) THEN 16 * HexValue(g[1]) + HexValue(g[2])
  ELSE HexValue(g[1])

\* data.match(/.{1,2}/g)[i - 1]: the groups of two characters, the last one possibly
\* of one. (The strings here hold no line terminators.)
HexGroup(data, i) ==
  SubSeq(data, 2 * i - 1, IF 2 * i <= Len(data) THEN 2 * i ELSE Len(data))

\* new Uint8Array(data.match(/.{1,2}/g).map(byte => parseInt(byte, 16)))
HexToBytes(data) == [i \in 1..((Len(data) + 1) \div 2) |-> ParseHexByte(HexGroup(data, i))]

\* _encodeHex: cannot throw on a string.
_encodeHex(data) == BytesToHex(TextEncode(data))

\* _decodeHex: match() gives null for the empty string, the TypeError is caught and
\* the data returned unchanged.
_decodeHex(data) == IF data = <<>> THEN data ELSE TextDecode(HexToBytes(data))

(***************************************************************************)
(* XOR                                                                     *)
(***************************************************************************)
RECURSIVE Xor(_, _)
\* a ^ b on non-negative integers.
Xor(a, b) ==
  IF a = 0 THEN b
  ELSE IF b = 0 THEN a
  ELSE ((a + b) % 2) + 2 * Xor(a \div 2, b \div 2)

\* bytes[i] ^ keyBytes[i % keyBytes.length], i counted from 0. With an empty key
\* i % 0 is NaN, keyBytes[NaN] is undefined and x ^ undefined is x.
XorBytes(bytes, keyBytes) ==
  [i \in 1..Len(bytes) |->
     IF keyBytes = <<>> THEN bytes[i]
     ELSE Xor(bytes[i], keyBytes[((i - 1) % Len(keyBytes)) + 1])]

\* _xorEncrypt(data, key); an undefined key encodes as the empty string.
_xorEncrypt(data, key) == BytesToHex(XorBytes(TextEncode(data), TextEncode(key)))

\* _xorDecrypt(data, key)
_xorDecrypt(data, key) ==
  IF data = <<>> THEN data
  ELSE TextDecode(XorBytes(HexToBytes(data), TextEncode(key)))

(***************************************************************************)
(* Base64 (btoa / atob)                                                    *)
(***************************************************************************)
Base64Alphabet ==
  Str(<< "A", "B", "C", "D", "E", "F", "G", "H", "I", "J", "K", "L", "M", "N", "O", "P",
         "Q", "R", "S", "T", "U", "V", "W", "X", "Y", "Z", "a", "b", "c", "d", "e", "f",
         "g", "h", "i", "j", "k", "l", "m", "n", "o", "p", "q", "r", "s", "t", "u", "v",
         "w", "x", "y", "z", "0", "1", "2", "3", "4", "5", "6", "7", "8", "9", "+", "/" >>)
PadChar == Ord("=")

B64Char(n) == Base64Alphabet[n + 1]
\* The value of each character of the alphabet, by character code.
B64Values ==
  [c \in {Base64Alphabet[i] : i \in 1..64} |->
     (CHOOSE i \in 1..64 : Base64Alphabet[i] = c) - 1]
B64Value(c) == B64Values[c]

RECURSIVE B64Encode(_)
\* The base64 text of a byte sequence, three bytes to four characters, padded.
B64Encode(bytes) ==
  IF bytes = <<>> THEN <<>>
  ELSE IF Len(bytes) = 1 THEN
    <<B64Char(bytes[1] \div 4), B64Char((bytes[1] % 4) * 16), PadChar, PadChar>>
  ELSE IF Len(bytes) = 2 THEN
    <<B64Char(bytes[1] \div 4), B64Char((bytes[1] % 4) * 16 + (bytes[2] \div 16)),
      B64Char((bytes[2] % 16) * 4), PadChar>>
  ELSE
    <<B64Char(bytes[1] \div 4), B64Char((bytes[1] % 4) * 16 + (bytes[2] \div 16)),
      B64Char((bytes[2] % 16) * 4 + (bytes[3] \div 64)), B64Char(bytes[3] % 64)>>
      \o B64Encode(Drop(bytes, 3))

RECURSIVE B64Decode(_)
\* The bytes of unpadded base64 text whose length is not 1 modulo 4.
B64Decode(cs) ==
  IF Len(cs) < 2 THEN <<>>
  ELSE LET a == B64Value(cs[1])
           b == B64Value(cs[2])
       IN IF Len(cs) = 2 THEN <<a * 4 + (b \div 16)>>
          ELSE LET c == B64Value(cs[3]) IN
            IF Len(cs) = 3 THEN <<a * 4 + (b \div 16), (b % 16) * 16 + (c \div 4)>>
            ELSE <<a * 4 + (b \div 16), (b % 16) * 16 + (c \div 4),
                   (c % 4) * 64 + B64Value(cs[4])>> \o B64Decode(Drop(cs, 4))

\* btoa throws on a character above 255.
BtoaThrows(data) == \E i \in 1..Len(data) : data[i] > 255

\* The text atob decodes after it has removed the padding of a text whose length
\* is a multiple of four. (The strings here hold no white space but ' '.)
AtobStripped(data) ==
  LET s == SelectSeq(data, LAMBDA c : c # Ord(" ")) IN
  IF Len(s) % 4 = 0 /\ Len(s) >= 2 /\ s[Len(s)] = PadChar /\ s[Len(s) - 1] = PadChar
    THEN SubSeq(s, 1, Len(s) - 2)
  ELSE IF Len(s) % 4 = 0 /\ Len(s) >= 1 /\ s[Len(s)] = PadChar
    THEN SubSeq(s, 1, Len(s) - 1)
  ELSE s

\* atob throws InvalidCharacterError.
AtobThrows(data) ==
  LET s == AtobStripped(data) IN
  Len(s) % 4 = 1 \/ \E i \in 1..Len(s) : s[i] \notin DOMAIN B64Values

\* _encodeBase64: btoa(data), and the data itself when btoa throws.
_encodeBase64(data) == IF BtoaThrows(data) THEN data ELSE B64Encode(data)

\* _decodeBase64: atob(data), and the data itself when atob throws.
_decodeBase64(data) == IF AtobThrows(data) THEN data ELSE B64Decode(AtobStripped(data))

(***************************************************************************)
(* Optional values: <<>> is null / undefined / absent, <<x>> is x.         *)
(***************************************************************************)
None == <<>>
Some(x) == <<x>>

(***************************************************************************)
(* JSON of the storage envelope {value, timestamp}                         *)
(***************************************************************************)
DecimalDigits == Str(<<"0","1","2","3","4","5","6","7","8","9">>)

RECURSIVE NumberToString(_)
\* The decimal text of a non-negative integer.
NumberToString(n) ==
  IF n < 10 THEN <<DecimalDigits[n + 1]>>
  ELSE NumberToString(n \div 10) \o <<DecimalDigits[(n % 10) + 1]>>

RECURSIVE StringToNumber(_)
StringToNumber(ds) ==
  IF ds = <<>> THEN 0
  ELSE 10 * StringToNumber(SubSeq(ds, 1, Len(ds) - 1)) + (ds[Len(ds)] - DecimalDigits[1])

\* A JSON number without sign, fraction or exponent: no leading zero.
IsJsonNat(ds) ==
  /\ ds # <<>>
  /\ \A i \in 1..Len(ds) : (ds[i] >= DecimalDigits[1] /\ ds[i] <= DecimalDigits[10])
  /\ (Len(ds) > 1 => ds[1] # Ord("0"))

JsonValueOpen == Str(<<"{","\"","v","a","l","u","e","\"",":","\"">>)
JsonTimestampOpen == Str(<<"\"",",","\"","t","i","m","e","s","t","a","m","p","\"",":">>)
JsonClose == Str(<<"}">>)
JsonNull == Str(<<"n","u","l","l">>)

\* JSON.stringify({value, timestamp}) for a string value that needs no escaping and a
\* timestamp that is null (None) or a number.
JSONstringify(data) ==
  JsonValueOpen \o data.value \o JsonTimestampOpen
    \o (IF data.timestamp = None THEN JsonNull ELSE NumberToString(data.timestamp[1]))
    \o JsonClose

\* The position of the first character c of s, 0 when there is none.
IndexOf(s, c) ==
  IF \E i \in 1..Len(s) : s[i] = c
    THEN CHOOSE i \in 1..Len(s) : s[i] = c /\ \A j \in 1..(i - 1) : s[j] # c
    ELSE 0

\* What _getStorage has in `data`: the result of JSON.parse ("object" for an envelope,
\* "null", "number"), or what stands for it ("SyntaxError", and further kinds below).
Data(kind, value, timestamp) == [kind |-> kind, value |-> value, timestamp |-> timestamp]

\* JSON.parse(text): the texts JSON.stringify above produces (an envelope), the
\* literal null and a plain number are parsed; every other text of this model (encoded
\* or garbled data, "[object Object]") is no JSON and throws SyntaxError.
JSONparse(text) ==
  IF text = JsonNull THEN Data("null", <<>>, None)
  ELSE IF IsJsonNat(text) THEN Data("number", <<>>, None)
  ELSE IF ~StartsWith(text, JsonValueOpen) THEN Data("SyntaxError", <<>>, None)
  ELSE
    LET rest == Drop(text, Len(JsonValueOpen))
        q == IndexOf(rest, Ord("\""))
    IN IF q = 0 \/ IndexOf(SubSeq(rest, 1, q), Ord("\\")) # 0 THEN Data("SyntaxError", <<>>, None)
       ELSE
         LET value == SubSeq(rest, 1, q - 1)
             tail == Drop(rest, q - 1)
         IN IF ~(StartsWith(tail, JsonTimestampOpen) /\ tail[Len(tail)] = JsonClose[1])
              THEN Data("SyntaxError", <<>>, None)
            ELSE
              LET num == SubSeq(tail, Len(JsonTimestampOpen) + 1, Len(tail) - 1) IN
              IF num = JsonNull THEN Data("object", value, None)
              ELSE IF IsJsonNat(num) THEN Data("object", value, Some(StringToNumber(num)))
              ELSE Data("SyntaxError", <<>>, None)

\* String(data) of the envelope object, which is what setItem stores when handed
\* the object itself.
ObjectObject == Str(<<"[","o","b","j","e","c","t"," ","O","b","j","e","c","t","]">>)

(***************************************************************************)
(* Bounds of the model                                                     *)
(***************************************************************************)
\* The clock (Date.now(), in units of the model) runs from 0 to MaxTime.
MaxTime == 3
\* The configured storage.expiration of the configurations that expire.
ExpirationT == 2
\* run() is called at most MaxRuns times per page load (failed calls apart), and at
\* most MaxPending asynchronous calls (run, setLanguage) await their translations at
\* a time.
MaxRuns == 2
MaxPending == 2

(***************************************************************************)
(* Theme values, storage keys                                              *)
(***************************************************************************)
SystemValue == Str(<<"s","y","s","t","e","m">>)
LightValue == Str(<<"l","i","g","h","t">>)
DarkValue == Str(<<"d","a","r","k">>)
\* A value that is no theme.
BlueValue == Str(<<"b","l","u","e">>)
ThemeValues == {SystemValue, LightValue, DarkValue}

_LOCAL_STORAGE_KEY == "useTheme"
\* The keys of the storage that the toggler uses.
StorageKeys == {_LOCAL_STORAGE_KEY}

\* The key 'k' of the xor configurations.
KeyK == Str(<<"k">>)

(***************************************************************************)
(* State                                                                   *)
(***************************************************************************)
VARIABLES
  webStorage,   \* [localStorage, sessionStorage]: key -> None or Some(raw string)
  now,          \* Date.now()
  options,      \* the options object the page's script hands to run()
  _config,      \* the static _config
  prefersDark,  \* window.matchMedia("(prefers-color-scheme: dark)").matches
  dataBsTheme,  \* documentElement's data-bs-theme attribute, None when absent
  controls,     \* the dropdowns with id _ELEMENT_ID, in document order
  listeners,    \* the number of click listeners run() has added to document.body
  pending,      \* the asynchronous calls that await _loadTranslations
  env,          \* navigator.language and documentElement.lang
  chosen,       \* the theme of the user's last selection that a listener handled
  lastOp        \* the last operation, with its argument, its result and its time

vars == <<webStorage, now, options, _config, prefersDark, dataBsTheme, controls,
          listeners, pending, env, chosen, lastOp>>

(***************************************************************************)
(* _config.storage and the persistent store                                *)
(***************************************************************************)
\* _config.storage.encryption; the key is "" when the object has none (an undefined
\* key encodes to no bytes).
Encryption(enabled, method, key) == [enabled |-> enabled, method |-> method, key |-> key]

\* _config.storage; a missing property is "undefined" (type) or None.
StorageConfig(type, expiration, encryption) ==
  [type |-> type, expiration |-> expiration, encryption |-> encryption]

\* this._config.storage.type === 'session' ? sessionStorage : localStorage
StorageType(cfg) == IF cfg.storage.type = "session" THEN "sessionStorage" ELSE "localStorage"

\* `expiration` as a condition: null, undefined and 0 are falsy.
ExpirationSet(cfg) == cfg.storage.expiration # None /\ cfg.storage.expiration[1] # 0

\* The string _setStorage hands to setItem for the envelope `data`.
StoredText(enc, data) ==
  IF enc.enabled THEN
    IF enc.method = "hex" THEN _encodeHex(JSONstringify(data))
    ELSE IF enc.method = "xor" THEN _xorEncrypt(JSONstringify(data), enc.key)
    ELSE IF enc.method = "base64" THEN _encodeBase64(JSONstringify(data))
    ELSE ObjectObject
  ELSE JSONstringify(data)

\* The encryption objects of the model: encryption off, a method that is none of the
\* three, base64, hex, xor without a key and xor with the key 'k', with the key
\* 'key' and with a key of one character outside ASCII (two bytes of UTF-8).
StoreEncryptions ==
  { Encryption(FALSE, "undefined", <<>>), Encryption(TRUE, "none", <<>>),
    Encryption(TRUE, "base64", <<>>), Encryption(TRUE, "hex", <<>>),
    Encryption(TRUE, "xor", KeyK), Encryption(TRUE, "xor", <<>>),
    Encryption(TRUE, "xor", Str(<<"k","e","y">>)), Encryption(TRUE, "xor", <<353>>) }

\* The envelopes of the model: a theme or a value that is none, without a timestamp
\* or written at a time of the clock.
Envelopes ==
  {[value |-> v, timestamp |-> ts] :
     v \in ThemeValues \cup {BlueValue}, ts \in {None} \cup {Some(t) : t \in 0..MaxTime}}

\* StoredText of every envelope under every encryption object, computed once.
StoredTexts == [enc \in StoreEncryptions |-> [data \in Envelopes |-> StoredText(enc, data)]]

\* Text that is no encoding of anything, and a plain JSON envelope.
GarbledText == Str(<<"z","z">>)
PlainEnvelope == JSONstringify([value |-> DarkValue, timestamp |-> None])

\* The texts an item of the model can hold.
ItemTexts ==
  {StoredTexts[enc][data] : enc \in StoreEncryptions, data \in Envelopes}
    \cup {GarbledText, PlainEnvelope}

\* _setStorage(key, value) at time t: the storage afterwards. Reading
\* storage.encryption.enabled of a missing encryption object throws, which the catch
\* swallows: nothing is stored.
_setStorage(ws, cfg, key, value, t) ==
  IF cfg.storage.encryption = None THEN ws
  ELSE
    LET data == [value |-> value,
                 timestamp |-> IF ExpirationSet(cfg) THEN Some(t) ELSE None]
    IN [ws EXCEPT ![StorageType(cfg)][key] = Some(StoredTexts[cfg.storage.encryption[1]][data])]

\* What _getStorage returns: null, undefined or a string.
RetNull == [kind |-> "null", str |-> <<>>]
RetUndefined == [kind |-> "undefined", str |-> <<>>]
RetString(s) == [kind |-> "string", str |-> s]

\* `data` after the decoding step of _getStorage: the parsed JSON, or the raw string
\* itself when encryption is enabled with a method that is none of the three.
DecodedData(enc, raw) ==
  IF enc.enabled THEN
    IF enc.method = "hex" THEN JSONparse(_decodeHex(raw))
    ELSE IF enc.method = "xor" THEN JSONparse(_xorDecrypt(raw, enc.key))
    ELSE IF enc.method = "base64" THEN JSONparse(_decodeBase64(raw))
    ELSE Data("string", <<>>, None)
  ELSE JSONparse(raw)

\* A faulty variant of Expired: an envelope without a timestamp never expires.
ExpiredWhenStamped(cfg, data, t) ==
  /\ ExpirationSet(cfg)
  /\ data.timestamp # None
  /\ t - data.timestamp[1] > cfg.storage.expiration[1]

\* Date.now() - data.timestamp > expiration, for an envelope: null counts as 0.
Expired(cfg, data, t) ==
  /\ ExpirationSet(cfg)
  /\ t - (IF data.timestamp = None THEN 0 ELSE data.timestamp[1]) > cfg.storage.expiration[1]

\* DecodedData of every text under every encryption object, computed once.
DecodedTexts == [enc \in StoreEncryptions |-> [raw \in ItemTexts |-> DecodedData(enc, raw)]]

\* `data` as _getStorage has it when it comes to the expiration: the item decoded
\* and parsed, "absent" for a missing or empty item (the early return null) and
\* "TypeError" when there is no encryption object to read `enabled` from.
DataRead(ws, cfg, key) ==
  LET item == ws[StorageType(cfg)][key] IN
  IF item = None \/ item[1] = <<>> THEN Data("absent", <<>>, None)
  ELSE IF cfg.storage.encryption = None THEN Data("TypeError", <<>>, None)
  ELSE DecodedTexts[cfg.storage.encryption[1]][item[1]]

\* What _getStorage returns for `data` at time t. Every exception (no encryption
\* object, no JSON, a property of null) is caught and gives null; a parsed number or
\* an undecoded string has no `value`: undefined.
Returned(cfg, data, t) ==
  IF data.kind = "object" THEN
    IF Expired(cfg, data, t) THEN RetNull ELSE RetString(data.value)
  ELSE IF data.kind \in {"number", "string"} THEN RetUndefined
  ELSE RetNull

\* _getStorage(key) at time t: the value returned.
_getStorage(ws, cfg, key, t) == Returned(cfg, DataRead(ws, cfg, key), t)

\* _getStorage(key) at time t: the storage afterwards (removeItem of an expired item).
StorageAfterGet(ws, cfg, key, t) ==
  LET data == DataRead(ws, cfg, key) IN
  IF data.kind = "object" /\ Expired(cfg, data, t)
    THEN [ws EXCEPT ![StorageType(cfg)][key] = None]
    ELSE ws

(***************************************************************************)
(* JavaScript objects of _config.i18n                                      *)
(*                                                                         *)
(* An object is a function from its property names (strings) to its        *)
(* property values. A translation table maps "system", "light", "dark" to  *)
(* labels; the translations option maps locales to tables or to URLs.      *)
(***************************************************************************)
En == Str(<<"e","n">>)
Cs == Str(<<"c","s">>)
\* What the property name `undefined` converts to.
UndefinedName == Str(<<"u","n","d","e","f","i","n","e","d">>)

EmptyObject == [k \in {} |-> ""]

\* A table: property name -> label; absent names are absent from the function.
Table(system, light, dark) ==
  [k \in {SystemValue, LightValue, DarkValue} |->
     IF k = SystemValue THEN system ELSE IF k = LightValue THEN light ELSE dark]

\* static _config.i18n.translations.en
EnglishTable == Table("System", "Light", "Dark")
\* The readme's cs table (Systém, Světlý, Tmavý), written without diacritics.
CzechTable == Table("Syste'm", "Sve'tly'", "Tmavy'")
\* A table that lacks the key light.
PartialTable == [k \in {SystemValue, DarkValue} |-> IF k = SystemValue THEN "Sys" ELSE "Drk"]

\* Property values: undefined, a string (a URL or a label) or an object (a table).
Undefined == [kind |-> "undefined", str |-> "", obj |-> EmptyObject]
StringValue(s) == [kind |-> "string", str |-> s, obj |-> EmptyObject]
ObjectValue(o) == [kind |-> "object", str |-> "", obj |-> o]

\* `v` as a condition: undefined and '' are falsy.
Truthy(v) == v.kind = "object" \/ (v.kind = "string" /\ v.str # "")

\* The value of _config.i18n.translations, and of what _loadTranslations returns:
\* undefined, a string, or an object whose properties are property values.
NoTranslations == [kind |-> "undefined", str |-> "", props |-> EmptyObject]
StringTranslations(s) == [kind |-> "string", str |-> s, props |-> EmptyObject]
ObjectTranslations(ps) == [kind |-> "object", str |-> "", props |-> ps]

\* A table seen as such an object: its labels are string properties.
TableTranslations(t) == ObjectTranslations([k \in DOMAIN t |-> StringValue(t[k])])

\* A property value returned as the translations.
AsTranslations(v) ==
  IF v.kind = "object" THEN TableTranslations(v.obj)
  ELSE IF v.kind = "string" THEN StringTranslations(v.str)
  ELSE NoTranslations

\* translations[name], for translations that are not undefined: a string has none of
\* the names used here.
Get(translations, name) ==
  IF translations.kind = "object" /\ name \in DOMAIN translations.props
    THEN translations.props[name]
    ELSE Undefined

\* translations.<name> || '<literal>', the text put into the document.
LabelOr(translations, name, literal) ==
  LET v == Get(translations, name) IN
  IF v.kind = "string" /\ v.str # "" THEN v.str
  ELSE IF v.kind = "object" THEN "[object Object]"
  ELSE literal

\* _config.i18n; a missing default or autoDetect is None.
I18n(default, autoDetect, translations) ==
  [default |-> default, autoDetect |-> autoDetect, translations |-> translations]

\* this._config.i18n.default as a property name
DefaultName(cfg) == IF cfg.i18n.default = None THEN UndefinedName ELSE cfg.i18n.default[1]

\* static _config. i18nOfOptions tells whether _config.i18n is the very object that
\* the options have as their i18n (an assignment to a property of the one is then an
\* assignment to the other).
DefaultConfig ==
  [root |-> "body", prepend |-> FALSE,
   i18n |-> I18n(Some(En), Some("false"),
                 ObjectTranslations([k \in {En} |-> ObjectValue(EnglishTable)])),
   storage |-> StorageConfig("local", None, Some(Encryption(TRUE, "xor", <<>>))),
   i18nOfOptions |-> FALSE]

\* The options of run(): each property is None when the options lack it.
Options(root, prepend, i18n, storage) ==
  [root |-> root, prepend |-> prepend, i18n |-> i18n, storage |-> storage]

\* { ...this._config, ...options }: a property of the options replaces the whole
\* property of _config.
Merge(cfg, opts) ==
  [root |-> IF opts.root = None THEN cfg.root ELSE opts.root[1],
   prepend |-> IF opts.prepend = None THEN cfg.prepend ELSE opts.prepend[1],
   i18n |-> IF opts.i18n = None THEN cfg.i18n ELSE opts.i18n[1],
   storage |-> IF opts.storage = None THEN cfg.storage ELSE opts.storage[1],
   i18nOfOptions |-> IF opts.i18n = None THEN cfg.i18nOfOptions ELSE TRUE]

(***************************************************************************)
(* Locale                                                                  *)
(***************************************************************************)
\* navigator.language.split('-')[0]
PrimarySubtag(tag) ==
  LET i == IndexOf(tag, Ord("-")) IN IF i = 0 THEN tag ELSE SubSeq(tag, 1, i - 1)

\* A faulty variant of _detectLanguage: the browser's language tag is taken whole.
_detectLanguageWholeTag(cfg, environment) ==
  IF cfg.i18n.autoDetect = Some("browser") THEN
    IF environment.language # <<>> THEN Some(environment.language) ELSE cfg.i18n.default
  ELSE IF cfg.i18n.autoDetect = Some("document") THEN
    IF environment.lang # <<>> THEN Some(environment.lang) ELSE cfg.i18n.default
  ELSE cfg.i18n.default

\* _detectLanguage(): the language, None for undefined. environment holds
\* navigator.language and documentElement.lang.
_detectLanguage(cfg, environment) ==
  IF cfg.i18n.autoDetect = Some("browser") THEN
    IF PrimarySubtag(environment.language) # <<>> THEN Some(PrimarySubtag(environment.language))
    ELSE cfg.i18n.default
  ELSE IF cfg.i18n.autoDetect = Some("document") THEN
    IF environment.lang # <<>> THEN Some(environment.lang) ELSE cfg.i18n.default
  ELSE cfg.i18n.default

LangName(lang) == IF lang = None THEN UndefinedName ELSE lang[1]

\* The outcomes of fetch(url) followed by response.json().
FetchOk(table) == [kind |-> "ok", table |-> table]
FetchFails(kind) == [kind |-> kind, table |-> EmptyObject]
NoFetch == FetchFails("none")

\* A faulty variant of the fallback: translationsConfig[this._config.i18n.default]
\* without the empty table.
DefaultOrUndefined(translations, cfg) == AsTranslations(Get(translations, DefaultName(cfg)))

\* translationsConfig[this._config.i18n.default] || {}
DefaultOrEmpty(translations, cfg) ==
  IF Truthy(Get(translations, DefaultName(cfg)))
    THEN AsTranslations(Get(translations, DefaultName(cfg)))
    ELSE ObjectTranslations(EmptyObject)

\* Whether _loadTranslations(lang) fetches: typeof translationsConfig[lang] === 'string'
Fetches(tc, lang) == Get(tc, LangName(lang)).kind = "string"

\* What _loadTranslations(lang) resolves to. tc is this._config.i18n.translations as
\* it was when the call began (not undefined); outcome is the outcome of the fetch and
\* cfg the configuration when it arrives (without a fetch: NoFetch, and the
\* configuration of the call).
_loadTranslations(tc, cfg, lang, outcome) ==
  IF Fetches(tc, lang) /\ outcome.kind = "ok" THEN TableTranslations(outcome.table)
  ELSE IF Fetches(tc, lang) /\ outcome.kind = "throws"
    THEN DefaultOrEmpty(cfg.i18n.translations, cfg)
  ELSE IF Truthy(Get(tc, LangName(lang))) THEN AsTranslations(Get(tc, LangName(lang)))
  ELSE DefaultOrEmpty(tc, cfg)

(***************************************************************************)
(* The document                                                            *)
(***************************************************************************)
\* run(): document.querySelector(this._config.root), document.body when it is null.
\* A root selector can match the body and two containers in it, "#a" before "#b"; any
\* other selector matches nothing.
ResolveRoot(cfg) == IF cfg.root \in {"body", "#a", "#b"} THEN cfg.root ELSE "body"

\* The place in document order of a dropdown inserted under root: the body's first
\* child (prepend), inside a container, or the body's last child.
DocumentPosition(root, prepend) ==
  IF root = "#a" THEN 1 ELSE IF root = "#b" THEN 2 ELSE IF prepend THEN 0 ELSE 3

IconSystem == "bi bi-circle-half"
IconLight == "bi bi-brightness-high-fill"
IconDark == "bi bi-moon-fill"

\* The dropdown _createElement builds: no item active, the half-circle icon, the
\* English literals (this._config.i18n.system, .light and .dark are never set).
NewDropdown(root, prepend) ==
  [root |-> root, pos |-> DocumentPosition(root, prepend), active |-> {},
   icon |-> IconSystem, text |-> "System",
   items |-> Table("System", "Light", "Dark")]

\* The dropdowns of cs inside root: the body contains them all.
InRoot(cs, root) == {i \in 1..Len(cs) : root = "body" \/ cs[i].root = root}

InsertDropdown(cs, d) ==
  SelectSeq(cs, LAMBDA c : c.pos < d.pos) \o <<d>> \o SelectSeq(cs, LAMBDA c : c.pos > d.pos)

\* A faulty variant of _createElement: the check for an existing element is missing.
_createElementAlways(cs, cfg) ==
  LET root == ResolveRoot(cfg) IN
  IF \E i \in 1..Len(cs) : cs[i].pos = DocumentPosition(root, cfg.prepend)
    THEN cs \o <<NewDropdown(root, cfg.prepend)>>
    ELSE InsertDropdown(cs, NewDropdown(root, cfg.prepend))

\* _createElement(root): the dropdowns afterwards. Every dropdown has the id
\* _ELEMENT_ID, so root.querySelector finds any dropdown inside root.
_createElement(cs, cfg) ==
  LET root == ResolveRoot(cfg) IN
  IF InRoot(cs, root) # {} THEN cs ELSE InsertDropdown(cs, NewDropdown(root, cfg.prepend))

\* What the theme operations read and write: the storage, the data-bs-theme attribute
\* and the dropdowns. document.getElementById(this._ELEMENT_ID) is the first dropdown
\* in document order.
World(ws, theme, cs) == [webStorage |-> ws, dataBsTheme |-> theme, controls |-> cs]

\* A faulty variant of _applyThemeSettings: the theme applied is stored, not the key.
_applyThemeSettingsStoresTheme(w, cfg, key, theme, icon, text, t) ==
  IF w.controls = <<>> THEN [w EXCEPT !.dataBsTheme = Some(theme)]
  ELSE [w EXCEPT !.dataBsTheme = Some(theme),
                 !.controls[1].icon = icon,
                 !.controls[1].text = text,
                 !.webStorage = _setStorage(w.webStorage, cfg, _LOCAL_STORAGE_KEY, theme, t)]

\* _applyThemeSettings(key, theme, icon, text) at time t. Without a dropdown it throws
\* after it has set the attribute, and the catch swallows that.
_applyThemeSettings(w, cfg, key, theme, icon, text, t) ==
  IF w.controls = <<>> THEN [w EXCEPT !.dataBsTheme = Some(theme)]
  ELSE [w EXCEPT !.dataBsTheme = Some(theme),
                 !.controls[1].icon = icon,
                 !.controls[1].text = text,
                 !.webStorage = _setStorage(w.webStorage, cfg, _LOCAL_STORAGE_KEY, key, t)]

\* What the switch of _updateTheme hands to _applyThemeSettings for `theme`: the key,
\* the theme to apply, the icon and the literal label; None when no case matches.
\* dark is window.matchMedia("(prefers-color-scheme: dark)").matches.
Resolution(key, theme, icon, literal) ==
  [key |-> key, theme |-> theme, icon |-> icon, literal |-> literal]

\* A faulty variant of the switch: system is always light.
ResolveIgnoresPreference(theme, dark) ==
  IF theme = SystemValue THEN Some(Resolution(SystemValue, LightValue, IconSystem, "System"))
  ELSE IF theme = LightValue THEN Some(Resolution(LightValue, LightValue, IconLight, "Light"))
  ELSE IF theme = DarkValue THEN Some(Resolution(DarkValue, DarkValue, IconDark, "Dark"))
  ELSE None

Resolve(theme, dark) ==
  IF theme = SystemValue
    THEN Some(Resolution(SystemValue, IF dark THEN DarkValue ELSE LightValue, IconSystem, "System"))
  ELSE IF theme = LightValue THEN Some(Resolution(LightValue, LightValue, IconLight, "Light"))
  ELSE IF theme = DarkValue THEN Some(Resolution(DarkValue, DarkValue, IconDark, "Dark"))
  ELSE None

\* The switch of _updateTheme.
ApplySwitch(w, cfg, theme, dark, t) ==
  LET r == Resolve(theme, dark) IN
  IF r = None THEN w
  ELSE _applyThemeSettings(w, cfg, r[1].key, r[1].theme, r[1].icon,
                           LabelOr(cfg.i18n.translations, r[1].key, r[1].literal), t)

\* A faulty variant of _updateTheme: the active class is not taken from the items
\* before the item of the theme is made active.
_updateThemeKeepsActive(w, cfg, theme, dark, t) ==
  IF w.controls = <<>> THEN w
  ELSE IF theme.kind # "string" \/ theme.str \notin DOMAIN w.controls[1].items THEN w
  ELSE IF cfg.i18n.translations.kind = "undefined"
    THEN [w EXCEPT !.controls[1].active = @ \cup {theme.str}]
  ELSE ApplySwitch([w EXCEPT !.controls[1].active = @ \cup {theme.str}], cfg, theme.str, dark, t)

\* _updateTheme(theme) at time t; theme is what _getStorage returned or the data-value
\* of the item clicked. The active class is taken from every item before the item of
\* the theme is looked for; reading a label of undefined translations throws after
\* the item has been made active, and the catch swallows that.
_updateTheme(w, cfg, theme, dark, t) ==
  IF w.controls = <<>> THEN w
  ELSE IF theme.kind # "string" \/ theme.str \notin DOMAIN w.controls[1].items
    THEN [w EXCEPT !.controls[1].active = {}]
  ELSE IF cfg.i18n.translations.kind = "undefined"
    THEN [w EXCEPT !.controls[1].active = {theme.str}]
  ELSE ApplySwitch([w EXCEPT !.controls[1].active = {theme.str}], cfg, theme.str, dark, t)

RECURSIVE UpdateThemeTimes(_, _, _, _, _, _)
\* One click is handled by each of the n listeners in turn.
UpdateThemeTimes(n, w, cfg, theme, dark, t) ==
  IF n = 0 THEN w
  ELSE UpdateThemeTimes(n - 1, _updateTheme(w, cfg, theme, dark, t), cfg, theme, dark, t)

(***************************************************************************)
(* Operations: what they record                                            *)
(***************************************************************************)
\* An operation: its name, the storage key or "", its argument (a theme, a value
\* written, a language), what it returned or read, and for an operation of the store
\* on its own the time.
FlatOp(op, key, value, ret, at) == [op |-> op, key |-> key, value |-> value, ret |-> ret, at |-> at]
NoOp == FlatOp("none", "", <<>>, RetNull, 0)
\* The same with the operation that came before it, where that matters: the write a
\* read follows (or the envelope the read found), the setLanguage a click follows, the
\* click that no listener handled before a run() completes, and for a setLanguage that
\* completes the call it overtook or was overtaken by.
Op(op, key, value, ret, at, prev) ==
  [op |-> op, key |-> key, value |-> value, ret |-> ret, at |-> at, prev |-> prev]
Flat(o) == FlatOp(o.op, o.key, o.value, o.ret, o.at)

(***************************************************************************)
(* Asynchronous calls                                                      *)
(*                                                                         *)
(* run() and setLanguage() await _loadTranslations. Without a fetch the    *)
(* call resumes in a microtask: before any other event, in the order of    *)
(* the calls, but after the script that called it has run on (and may have *)
(* called run or setLanguage again). With a fetch it resumes whenever the  *)
(* response arrives.                                                       *)
(***************************************************************************)
\* A call that awaits: run or setLanguage, its language, the translations object it
\* captured, whether it fetches, what it resolved to when it does not, and whether
\* a run() had completed when the call was made.
Call(op, lang, tc, cfg, started) ==
  [op |-> op, lang |-> lang, tc |-> tc, fetch |-> Fetches(tc, lang),
   result |-> _loadTranslations(tc, cfg, lang, NoFetch), started |-> started]

MicrotaskPending == \E i \in 1..Len(pending) : ~pending[i].fetch

\* The call at i may resume now: a fetch at any time, a microtask in its turn.
MayResume(i) == pending[i].fetch \/ \A j \in 1..(i - 1) : pending[j].fetch

Remove(seq, i) == SubSeq(seq, 1, i - 1) \o SubSeq(seq, i + 1, Len(seq))

FetchOutcomes ==
  {FetchOk(CzechTable), FetchOk(PartialTable), FetchFails("notOk"), FetchFails("throws")}

\* The translations the call at i resolves to.
Resolved(i, outcome) ==
  IF pending[i].fetch
    THEN _loadTranslations(pending[i].tc, _config, pending[i].lang, outcome)
    ELSE pending[i].result

(***************************************************************************)
(* run                                                                     *)
(***************************************************************************)
\* run(opts) up to its await: the merge, the root, _createElement, _detectLanguage
\* and the call of _loadTranslations. With no translations object _loadTranslations
\* throws in its try and again in its catch, and run() ends in its own catch.
RunCall(opts) ==
  /\ listeners + Len(SelectSeq(pending, LAMBDA c : c.op = "run")) < MaxRuns
  /\ Len(pending) < MaxPending
  /\ LET cfg == Merge(_config, opts)
         lang == _detectLanguage(cfg, env)
         tc == cfg.i18n.translations
     IN /\ _config' = cfg
        /\ controls' = _createElement(controls, cfg)
        /\ pending' = IF tc.kind = "undefined" THEN pending
                      ELSE Append(pending, Call("run", lang, tc, cfg, listeners > 0))
        /\ lastOp' = Op(IF tc.kind = "undefined" THEN "runFailed" ELSE "run",
                        "", LangName(lang), RetNull, 0, NoOp)
  /\ UNCHANGED <<webStorage, now, prefersDark, dataBsTheme, listeners, env, chosen>>

\* The page's script calls run() with its options.
Run == RunCall(options) /\ UNCHANGED options

\* A faulty variant of RunRest: the theme read is published and the envelope is left
\* as it was written.
RunRestKeepsEnvelope(cfg, read) ==
  LET ws1 == StorageAfterGet(webStorage, cfg, _LOCAL_STORAGE_KEY, now)
      ws2 == IF read = RetNull
               THEN _setStorage(ws1, cfg, _LOCAL_STORAGE_KEY, SystemValue, now)
               ELSE ws1
  IN [_updateTheme(World(ws2, dataBsTheme, controls), cfg,
                   IF read = RetNull THEN RetString(SystemValue) ELSE read, prefersDark, now)
        EXCEPT !.webStorage = ws2]

\* The rest of run() once the translations are there: the stored theme is read,
\* "system" is taken and stored when it is null, and _updateTheme is called.
\* cfg is _config with the translations; read is what _getStorage returns.
RunRest(cfg, read) ==
  LET ws1 == StorageAfterGet(webStorage, cfg, _LOCAL_STORAGE_KEY, now)
      ws2 == IF read = RetNull
               THEN _setStorage(ws1, cfg, _LOCAL_STORAGE_KEY, SystemValue, now)
               ELSE ws1
  IN _updateTheme(World(ws2, dataBsTheme, controls), cfg,
                  IF read = RetNull THEN RetString(SystemValue) ELSE read, prefersDark, now)

\* run() from its await on: _config.i18n becomes a new object with the translations,
\* and run() ends by adding the click listener to document.body.
RunResume(i, outcome) ==
  /\ pending[i].op = "run"
  /\ MayResume(i)
  /\ pending[i].fetch \/ outcome = NoFetch
  /\ LET cfg == [_config EXCEPT !.i18n.translations = Resolved(i, outcome),
                                !.i18nOfOptions = FALSE]
         read == _getStorage(webStorage, cfg, _LOCAL_STORAGE_KEY, now)
         w == RunRest(cfg, read)
     IN /\ _config' = cfg
        /\ webStorage' = w.webStorage
        /\ dataBsTheme' = w.dataBsTheme
        /\ controls' = w.controls
        /\ lastOp' = Op("started", _LOCAL_STORAGE_KEY, LangName(pending[i].lang), read, 0,
                        IF lastOp.op = "clickUnheard" THEN Flat(lastOp) ELSE NoOp)
  /\ listeners' = listeners + 1
  /\ pending' = Remove(pending, i)
  /\ UNCHANGED <<now, options, prefersDark, env, chosen>>

(***************************************************************************)
(* setLanguage                                                             *)
(***************************************************************************)
\* setLanguage(lang) up to its await.
SetLanguage(lang) ==
  /\ Len(pending) < MaxPending
  /\ pending' = IF _config.i18n.translations.kind = "undefined" THEN pending
                ELSE Append(pending, Call("setLanguage", Some(lang),
                                          _config.i18n.translations, _config, listeners > 0))
  /\ lastOp' = Op("setLanguage", "", lang, RetNull, 0, NoOp)
  /\ UNCHANGED <<webStorage, now, options, _config, prefersDark, dataBsTheme, controls,
                 listeners, env, chosen>>

\* setLanguage: the texts of the first dropdown's items, and of its button: the icon
\* it has and translations.system || 'System'.
Relabel(cs, translations) ==
  IF cs = <<>> THEN cs
  ELSE [cs EXCEPT ![1].items =
          Table(LabelOr(translations, SystemValue, "System"),
                LabelOr(translations, LightValue, "Light"),
                LabelOr(translations, DarkValue, "Dark")),
                  ![1].text = LabelOr(translations, SystemValue, "System")]

\* setLanguage(lang) from its await on. The translations are assigned to a property
\* of _config.i18n, which is the options' i18n object from the merge of a run() until
\* that run() or another completes. The record of the operation tells whether the
\* call completes while a setLanguage() called before it still awaits (it overtook
\* that call), or right after the call that overtook it.
SetLanguageResume(i, outcome) ==
  /\ pending[i].op = "setLanguage"
  /\ MayResume(i)
  /\ pending[i].fetch \/ outcome = NoFetch
  /\ _config' = [_config EXCEPT !.i18n.translations = Resolved(i, outcome)]
  /\ options' = IF _config.i18nOfOptions
                  THEN [options EXCEPT !.i18n[1].translations = Resolved(i, outcome)]
                  ELSE options
  /\ controls' = Relabel(controls, Resolved(i, outcome))
  /\ lastOp' = Op(IF pending[i].started THEN "languageSet" ELSE "languageSetEarly",
                  "", pending[i].lang[1], RetNull, 0,
                  IF \E j \in 1..(i - 1) : pending[j].op = "setLanguage"
                    THEN FlatOp("overtook", "",
                                pending[CHOOSE j \in 1..(i - 1) :
                                          pending[j].op = "setLanguage"].lang[1],
                                RetNull, 0)
                  ELSE IF /\ lastOp.op \in {"languageSet", "languageSetEarly"}
                          /\ lastOp.prev.op = "overtook"
                          /\ lastOp.prev.value = pending[i].lang[1]
                    THEN FlatOp("overtaken", "", lastOp.value, RetNull, 0)
                  ELSE NoOp)
  /\ pending' = Remove(pending, i)
  /\ UNCHANGED <<webStorage, now, prefersDark, dataBsTheme, listeners, env, chosen>>

(***************************************************************************)
(* Events                                                                  *)
(***************************************************************************)
\* A click on the item with data-value v of the dropdown at i: every listener that
\* run() added calls _updateTheme(v).
Click(i, v) ==
  /\ ~MicrotaskPending
  /\ i \in 1..Len(controls)
  /\ LET w == UpdateThemeTimes(listeners, World(webStorage, dataBsTheme, controls),
                               _config, RetString(v), prefersDark, now)
     IN /\ webStorage' = w.webStorage
        /\ dataBsTheme' = w.dataBsTheme
        /\ controls' = w.controls
  /\ chosen' = IF listeners > 0 THEN Some([value |-> v, at |-> now]) ELSE chosen
  /\ lastOp' = Op(IF listeners > 0 THEN "click" ELSE "clickUnheard", "", v, RetNull, 0,
                  IF lastOp.op = "languageSet" THEN Flat(lastOp) ELSE NoOp)
  /\ UNCHANGED <<now, options, _config, prefersDark, listeners, pending, env>>

\* The clock advances. The toggler reads Date.now() only when an expiration is set
\* (expiration ? Date.now() : null, expiration && Date.now() - ...): for a page
\* without one the clock is left where it is.
Tick ==
  /\ ~MicrotaskPending
  /\ ExpirationSet(Merge(DefaultConfig, options))
  /\ now < MaxTime
  /\ now' = now + 1
  /\ UNCHANGED <<webStorage, options, _config, prefersDark, dataBsTheme, controls,
                 listeners, pending, env, chosen, lastOp>>

\* The operating system's colour scheme changes. The toggler has no listener for it.
PreferenceChange ==
  /\ ~MicrotaskPending
  /\ prefersDark' = ~prefersDark
  /\ lastOp' = Op("preferenceChange", "", <<>>, RetNull, 0, NoOp)
  /\ UNCHANGED <<webStorage, now, options, _config, dataBsTheme, controls, listeners,
                 pending, env, chosen>>

\* The page is loaded again: the class and the document are new, the storage stays.
Reload ==
  /\ ~MicrotaskPending
  /\ _config' = DefaultConfig
  /\ dataBsTheme' = None
  /\ controls' = <<>>
  /\ listeners' = 0
  /\ pending' = <<>>
  /\ lastOp' = Op("reload", "", <<>>, RetNull, 0, NoOp)
  /\ UNCHANGED <<webStorage, now, options, prefersDark, env, chosen>>

\* What another script may leave under the key, for the configuration cfg: nothing,
\* text that is no encoding of anything, a plain JSON envelope, and envelopes encoded
\* as cfg encodes them: one whose value is no theme, one without a timestamp (as a
\* page without an expiration writes it) and one with the timestamp 0 (as a page with
\* an expiration writes it).
ForeignItems(cfg) ==
  {None, Some(GarbledText), Some(PlainEnvelope)}
    \cup (IF cfg.storage.encryption = None THEN {}
          ELSE {Some(StoredTexts[cfg.storage.encryption[1]][
                       [value |-> BlueValue, timestamp |-> None]]),
                Some(StoredTexts[cfg.storage.encryption[1]][
                       [value |-> LightValue, timestamp |-> None]]),
                Some(StoredTexts[cfg.storage.encryption[1]][
                       [value |-> DarkValue, timestamp |-> Some(0)]])})

\* Another script writes or removes the item in the backend the page is configured for.
ExternalSet(item) ==
  /\ ~MicrotaskPending
  /\ item \in ForeignItems(Merge(DefaultConfig, options))
  /\ webStorage' = [webStorage EXCEPT
                      ![StorageType(Merge(DefaultConfig, options))][_LOCAL_STORAGE_KEY] = item]
  /\ chosen' = None
  /\ lastOp' = Op("external", _LOCAL_STORAGE_KEY, <<>>, RetNull, 0, NoOp)
  /\ UNCHANGED <<now, options, _config, prefersDark, dataBsTheme, controls, listeners,
                 pending, env>>

(***************************************************************************)
(* The toggler in a page                                                   *)
(***************************************************************************)
\* The storage options of the pages: none (the defaults: xor without a key), xor
\* with a key and hex (both with an expiration), encryption switched off, a method
\* that is none of the three, and an object with the expiration alone.
PageStorage ==
  { None,
    Some(StorageConfig("local", Some(ExpirationT), Some(Encryption(TRUE, "xor", KeyK)))),
    Some(StorageConfig("session", Some(ExpirationT), Some(Encryption(TRUE, "hex", <<>>)))),
    Some(StorageConfig("session", None, Some(Encryption(FALSE, "undefined", <<>>)))),
    Some(StorageConfig("local", None, Some(Encryption(TRUE, "none", <<>>)))),
    Some(StorageConfig("undefined", Some(ExpirationT), None)) }

\* The i18n options of the pages: none, the readme's (a cs table, no autoDetect),
\* the same with the translations alone, detection from the browser with two tables,
\* detection from the document with the cs table at a URL.
PageI18n ==
  { None,
    Some(I18n(Some(En), None, ObjectTranslations([k \in {Cs} |-> ObjectValue(CzechTable)]))),
    Some(I18n(None, None, ObjectTranslations([k \in {Cs} |-> ObjectValue(CzechTable)]))),
    Some(I18n(Some(En), Some("browser"),
              ObjectTranslations([k \in {En, Cs} |->
                 IF k = En THEN ObjectValue(EnglishTable) ELSE ObjectValue(CzechTable)]))),
    Some(I18n(Some(En), Some("document"),
              ObjectTranslations([k \in {En, Cs} |->
                 IF k = En THEN ObjectValue(EnglishTable) ELSE StringValue("lang/cs.json")]))) }

\* What the page's script hands to run(): storage options, i18n options, or a root
\* (the container "#a") that the dropdown is prepended to.
PageOptions ==
  {Options(None, None, None, st) : st \in PageStorage}
    \cup {Options(None, None, i, None) : i \in PageI18n}
    \cup {Options(Some("#a"), Some(TRUE), None, None)}

\* The page as it is loaded in the environment e (navigator.language and
\* documentElement.lang, each empty when there is none): the storage and the document
\* are empty.
PageLoaded(e) ==
  /\ webStorage = [localStorage |-> [k \in StorageKeys |-> None],
                   sessionStorage |-> [k \in StorageKeys |-> None]]
  /\ now = 0
  /\ prefersDark = FALSE
  /\ dataBsTheme = None
  /\ controls = <<>>
  /\ listeners = 0
  /\ pending = <<>>
  /\ env = e
  /\ chosen = None
  /\ lastOp = Op("none", "", <<>>, RetNull, 0, NoOp)

\* The page of a browser that reports cs-CZ, with a document that declares cs.
InitPage == PageLoaded([language |-> Str(<<"c","s","-","C","Z">>), lang |-> Cs])

Init ==
  /\ InitPage
  /\ options \in PageOptions
  /\ _config = DefaultConfig

\* A page that calls run(), possibly again while a call awaits or after it has
\* completed, and never setLanguage.
Next ==
  \/ Run
  \/ \E i \in 1..Len(pending) : \E outcome \in FetchOutcomes \cup {NoFetch} : RunResume(i, outcome)
  \/ \E i \in 1..Len(controls) : \E v \in ThemeValues : Click(i, v)
  \/ Tick
  \/ PreferenceChange
  \/ Reload
  \/ \E item \in ForeignItems(Merge(DefaultConfig, options)) : ExternalSet(item)

Spec == Init /\ [][Next]_vars

(***************************************************************************)
(* A page that switches languages                                          *)
(***************************************************************************)
LocaleInit ==
  /\ InitPage
  /\ options \in {Options(None, None, i, None) : i \in PageI18n}
  /\ _config = DefaultConfig

\* The page calls run() and setLanguage(), the user clicks. A response may also hold
\* a table whose three labels are empty strings (a button that shows its icon alone).
LocaleNext ==
  \/ Run
  \/ \E i \in 1..Len(pending) :
        \E outcome \in FetchOutcomes \cup {FetchOk(Table("", "", "")), NoFetch} :
          RunResume(i, outcome)
  \/ \E lang \in {En, Cs, Str(<<"d","e">>)} : SetLanguage(lang)
  \/ \E i \in 1..Len(pending) :
        \E outcome \in FetchOutcomes \cup {FetchOk(Table("", "", "")), NoFetch} :
          SetLanguageResume(i, outcome)
  \/ \E i \in 1..Len(controls) : \E v \in ThemeValues : Click(i, v)

LocaleSpec == LocaleInit /\ [][LocaleNext]_vars

(***************************************************************************)
(* Pages in several environments                                           *)
(***************************************************************************)
\* The browser reports cs-CZ and the document declares cs; the browser reports en-US
\* and the document declares nothing; the browser reports nothing and the document
\* declares en-US.
Environments ==
  { [language |-> Str(<<"c","s","-","C","Z">>), lang |-> Cs],
    [language |-> Str(<<"e","n","-","U","S">>), lang |-> <<>>],
    [language |-> <<>>, lang |-> Str(<<"e","n","-","U","S">>)] }

LanguageInit ==
  /\ \E e \in Environments : PageLoaded(e)
  /\ options \in {Options(None, None, i, None) : i \in PageI18n}
  /\ _config = DefaultConfig

\* The page calls run() and setLanguage(), the user selects dark.
LanguageNext ==
  \/ Run
  \/ \E i \in 1..Len(pending) : \E outcome \in FetchOutcomes \cup {NoFetch} : RunResume(i, outcome)
  \/ \E lang \in {Cs, Str(<<"d","e">>)} : SetLanguage(lang)
  \/ \E i \in 1..Len(pending) : \E outcome \in FetchOutcomes \cup {NoFetch} :
        SetLanguageResume(i, outcome)
  \/ \E i \in 1..Len(controls) : Click(i, DarkValue)

LanguageSpec == LanguageInit /\ [][LanguageNext]_vars

(***************************************************************************)
(* A page with several dropdowns                                           *)
(***************************************************************************)
RootsInit ==
  /\ InitPage
  /\ options = Options(None, None, None, None)
  /\ _config = DefaultConfig

\* The page's script calls run() for one root and then for another: the containers
\* "#a" and "#b" and the body; the user clicks in any of the dropdowns.
RootsNext ==
  \/ \E root \in {"#a", "#b", "body"} :
        /\ RunCall(Options(Some(root), None, None, None))
        /\ options' = Options(Some(root), None, None, None)
  \/ \E i \in 1..Len(pending) : RunResume(i, NoFetch)
  \/ \E i \in 1..Len(controls) : \E v \in ThemeValues : Click(i, v)
  \/ PreferenceChange

RootsSpec == RootsInit /\ [][RootsNext]_vars

(***************************************************************************)
(* A selection, step by step                                               *)
(*                                                                         *)
(* The click listener runs to its end before any other event is handled;   *)
(* here its position is part of the state. _updateTheme marks the item,    *)
(* _applyThemeSettings sets the attribute and the button, and only then    *)
(* calls _setStorage.                                                      *)
(***************************************************************************)
\* The one listener of a page handles a click on the item v of the dropdown at i, up
\* to the call of _setStorage in _applyThemeSettings: the item is active, the
\* attribute and the button are set. (These pages have translations and the item is
\* one of the three, so the call is reached.)
ClickPublish(i, v) ==
  /\ ~MicrotaskPending
  /\ listeners = 1
  /\ i \in 1..Len(controls)
  /\ LET w == _updateTheme(World(webStorage, dataBsTheme, controls), _config,
                           RetString(v), prefersDark, now)
     IN /\ dataBsTheme' = w.dataBsTheme
        /\ controls' = w.controls
  /\ lastOp' = Op("applying", _LOCAL_STORAGE_KEY, v, RetNull, 0, NoOp)
  /\ UNCHANGED <<webStorage, now, options, _config, prefersDark, listeners, pending, env,
                 chosen>>

\* this._setStorage(this._LOCAL_STORAGE_KEY, key), which ends the listener.
ClickWrite ==
  /\ lastOp.op = "applying"
  /\ webStorage' = _setStorage(webStorage, _config, _LOCAL_STORAGE_KEY, lastOp.value, now)
  /\ chosen' = Some([value |-> lastOp.value, at |-> now])
  /\ lastOp' = Op("click", "", lastOp.value, RetNull, 0, NoOp)
  /\ UNCHANGED <<now, options, _config, prefersDark, dataBsTheme, controls, listeners,
                 pending, env>>

\* A page that calls run() once; nothing else happens while the listener runs.
StepsNext ==
  \/ ClickWrite
  \/ lastOp.op # "applying" /\ listeners = 0 /\ pending = <<>> /\ Run
  \/ /\ lastOp.op # "applying"
     /\ \E i \in 1..Len(pending) : \E outcome \in FetchOutcomes \cup {NoFetch} :
           RunResume(i, outcome)
  \/ /\ lastOp.op # "applying"
     /\ \E i \in 1..Len(controls) : \E v \in ThemeValues : ClickPublish(i, v)
  \/ lastOp.op # "applying" /\ Tick
  \/ lastOp.op # "applying" /\ PreferenceChange
  \/ lastOp.op # "applying" /\ Reload

StepsSpec == Init /\ [][StepsNext]_vars

(***************************************************************************)
(* The persistent store on its own                                         *)
(***************************************************************************)
\* Every storage configuration: both backends, with and without expiration, with
\* every encryption object; and the object with the expiration alone. The store is
\* read and written at any time: here the clock advances under every configuration.
StoreConfigs ==
  {StorageConfig(type, expiration, Some(enc)) :
     type \in {"local", "session"}, expiration \in {None, Some(ExpirationT)},
     enc \in StoreEncryptions}
    \cup {StorageConfig("undefined", Some(ExpirationT), None)}

StoreInit ==
  /\ InitPage
  /\ options \in {Options(None, None, None, Some(st)) : st \in StoreConfigs}
  /\ _config = Merge(DefaultConfig, options)

\* _setStorage(key, value)
StoreWrite(key, value) ==
  /\ webStorage' = _setStorage(webStorage, _config, key, value, now)
  /\ lastOp' = Op("write", key, value, RetNull, now, NoOp)
  /\ UNCHANGED <<now, options, _config, prefersDark, dataBsTheme, controls, listeners,
                 pending, env, chosen>>

\* _getStorage(key). The record of a read that follows no write names the envelope
\* that the read found: its value and whether it had a timestamp.
StoreRead(key) ==
  /\ webStorage' = StorageAfterGet(webStorage, _config, key, now)
  /\ lastOp' = Op("read", key, <<>>, _getStorage(webStorage, _config, key, now), now,
                  LET data == DataRead(webStorage, _config, key) IN
                  IF lastOp.op = "write" THEN Flat(lastOp)
                  ELSE IF data.kind # "object" THEN NoOp
                  ELSE IF data.timestamp = None
                    THEN FlatOp("unstamped", key, data.value, RetNull, 0)
                    ELSE FlatOp("stamped", key, data.value, RetNull, data.timestamp[1]))
  /\ UNCHANGED <<now, options, _config, prefersDark, dataBsTheme, controls, listeners,
                 pending, env, chosen>>

StoreNext ==
  \/ \E key \in StorageKeys : \E value \in ThemeValues : StoreWrite(key, value)
  \/ \E key \in StorageKeys : StoreRead(key)
  \/ Tick
  \/ /\ ~ExpirationSet(_config)
     /\ now < MaxTime
     /\ now' = now + 1
     /\ UNCHANGED <<webStorage, options, _config, prefersDark, dataBsTheme, controls,
                    listeners, pending, env, lastOp, chosen>>
  \/ \E item \in ForeignItems(_config) : ExternalSet(item)

StoreSpec == StoreInit /\ [][StoreNext]_vars


(***************************************************************************)
(* Properties of the persistent store (StoreSpec)                          *)
(***************************************************************************)
\* The item under the toggler's key in the backend of the configuration.
Item == webStorage[StorageType(_config)][_LOCAL_STORAGE_KEY]

\* The last operation is a read of the key that the last write before it wrote, with
\* nothing but time in between; Elapsed is the time between the two.
ReadFollowsWrite ==
  lastOp.op = "read" /\ lastOp.prev.op = "write" /\ lastOp.prev.key = lastOp.key
Elapsed == lastOp.at - lastOp.prev.at

\* The configuration has an encryption object whose codec _setStorage and _getStorage
\* both have a branch for: encryption off, or one of hex, xor, base64.
SoundCodec(cfg) ==
  /\ cfg.storage.encryption # None
  /\ \/ ~cfg.storage.encryption[1].enabled
     \/ cfg.storage.encryption[1].method \in {"hex", "xor", "base64"}

\* C1: for both backends and every encryption setting (disabled; enabled with the
\* method none, base64, hex, or xor with a key), a read of the key right after a
\* write of v under the same configuration, with no expiration window elapsed in
\* between, returns v.
C1_ReadReturnsWritten ==
  ( /\ ReadFollowsWrite
    /\ _config.storage.encryption \in
         { Some(Encryption(FALSE, "undefined", <<>>)), Some(Encryption(TRUE, "none", <<>>)),
           Some(Encryption(TRUE, "base64", <<>>)), Some(Encryption(TRUE, "hex", <<>>)),
           Some(Encryption(TRUE, "xor", KeyK)) }
    /\ ~(ExpirationSet(_config) /\ Elapsed > _config.storage.expiration[1]) )
  => lastOp.ret = RetString(lastOp.prev.value)

\* C1, where it fails: encryption enabled with the method none, local storage, no
\* expiration; the read right after the write returns undefined, the item being the
\* text of an object that was never serialised.
C1_ReadOfMethodNone ==
  /\ ReadFollowsWrite
  /\ _config.storage = StorageConfig("local", None, Some(Encryption(TRUE, "none", <<>>)))
  /\ Elapsed = 0
  /\ lastOp.ret = RetUndefined
  /\ Item = Some(ObjectObject)

\* C3: with an expiration T configured (and an encryption object), a read T + 1
\* after the write returns null and removes the key, a read T - 1 after the write
\* returns the written value and leaves the key in place, and until a read the
\* written key stays in the backend however much time passes.
C3_Expiration ==
  (ExpirationSet(_config) /\ _config.storage.encryption # None) =>
    /\ (ReadFollowsWrite /\ Elapsed = _config.storage.expiration[1] + 1)
         => (lastOp.ret = RetNull /\ Item = None)
    /\ (ReadFollowsWrite /\ Elapsed = _config.storage.expiration[1] - 1)
         => (lastOp.ret = RetString(lastOp.prev.value) /\ Item # None)
    /\ lastOp.op = "write" => Item # None

\* C3 for the configurations with a sound codec: the same statement holds.
C3_ExpirationSoundCodec ==
  (ExpirationSet(_config) /\ SoundCodec(_config)) =>
    /\ (ReadFollowsWrite /\ Elapsed = _config.storage.expiration[1] + 1)
         => (lastOp.ret = RetNull /\ Item = None)
    /\ (ReadFollowsWrite /\ Elapsed = _config.storage.expiration[1] - 1)
         => (lastOp.ret = RetString(lastOp.prev.value) /\ Item # None)
    /\ lastOp.op = "write" => Item # None

\* C3, where it fails: expiration ExpirationT with the method none; the read
\* ExpirationT + 1 after the write returns undefined and the key is still there.
C3_ExpiredUnderMethodNone ==
  /\ ReadFollowsWrite
  /\ _config.storage.expiration = Some(ExpirationT)
  /\ _config.storage.encryption = Some(Encryption(TRUE, "none", <<>>))
  /\ Elapsed = ExpirationT + 1
  /\ lastOp.ret = RetUndefined
  /\ Item # None

\* The JSON text that the last write serialised: the value written, and the time of
\* the write when an expiration is set.
Payload ==
  JSONstringify([value |-> lastOp.value,
                 timestamp |-> IF ExpirationSet(_config) THEN Some(lastOp.at) ELSE None])

\* C12: for every encryption method (none, base64, hex, xor), every non-empty key for
\* xor and every payload p, decode(encode(p)) = p: what a write has stored is the
\* payload encoded by the method, and decoding it by the method gives the payload
\* back. The method none is the identity.
C12_CodecRoundTrip ==
  (lastOp.op = "write" /\ _config.storage.encryption # None
     /\ _config.storage.encryption[1].enabled) =>
    LET enc == _config.storage.encryption[1] IN
    /\ Item # None
    /\ enc.method = "base64" =>
          (Item[1] = _encodeBase64(Payload) /\ _decodeBase64(Item[1]) = Payload)
    /\ enc.method = "hex" =>
          (Item[1] = _encodeHex(Payload) /\ _decodeHex(Item[1]) = Payload)
    /\ (enc.method = "xor" /\ enc.key # <<>>) =>
          (Item[1] = _xorEncrypt(Payload, enc.key) /\ _xorDecrypt(Item[1], enc.key) = Payload)
    /\ enc.method = "none" => Item[1] = Payload

\* C12 for the methods that have a codec (base64, hex, xor with a key): the same
\* statement holds.
C12_CodecRoundTripOfCodecs ==
  (lastOp.op = "write" /\ _config.storage.encryption # None
     /\ _config.storage.encryption[1].enabled) =>
    LET enc == _config.storage.encryption[1] IN
    /\ enc.method = "base64" =>
          (Item[1] = _encodeBase64(Payload) /\ _decodeBase64(Item[1]) = Payload)
    /\ enc.method = "hex" =>
          (Item[1] = _encodeHex(Payload) /\ _decodeHex(Item[1]) = Payload)
    /\ (enc.method = "xor" /\ enc.key # <<>>) =>
          (Item[1] = _xorEncrypt(Payload, enc.key) /\ _xorDecrypt(Item[1], enc.key) = Payload)

\* C12, where it fails: under the method none the write of light has not stored the
\* payload, and what it has stored is no JSON.
C12_PayloadNotStored ==
  /\ lastOp.op = "write" /\ lastOp.value = LightValue
  /\ _config.storage.encryption = Some(Encryption(TRUE, "none", <<>>))
  /\ Item # None /\ Item[1] # Payload
  /\ JSONparse(Item[1]).kind = "SyntaxError"

\* C13: with encryption enabled (base64, hex or xor), a read of an item whose text
\* is no valid encoding under the method (base64 text that atob rejects; for hex and
\* xor, text that is not pairs of hex digits) returns null; it never returns a value
\* taken from the text as it is.
C13_InvalidEncodingReadsNull ==
  ( /\ lastOp.op = "read" /\ Item # None
    /\ _config.storage.encryption # None
    /\ _config.storage.encryption[1].enabled
    /\ \/ _config.storage.encryption[1].method = "base64" /\ AtobThrows(Item[1])
       \/ /\ _config.storage.encryption[1].method \in {"hex", "xor"}
          /\ Len(Item[1]) % 2 = 1 \/ \E i \in 1..Len(Item[1]) : ~IsHexDigit(Item[1][i]) )
  => lastOp.ret = RetNull

\* C13, where it fails: under base64 the item is a plain JSON envelope, which atob
\* rejects, and the read returns the value of that envelope.
C13_PlainEnvelopeReadUnderBase64 ==
  /\ lastOp.op = "read"
  /\ _config.storage.encryption = Some(Encryption(TRUE, "base64", <<>>))
  /\ Item = Some(PlainEnvelope)
  /\ AtobThrows(PlainEnvelope)
  /\ lastOp.ret = RetString(DarkValue)

\* C16: with the method xor and an empty or missing key, the store neither encodes
\* nor decodes with the empty key: a write does not leave the payload xor-ed with no
\* key under the key, and a read returns no value.
C16_EmptyKeyRejected ==
  _config.storage.encryption = Some(Encryption(TRUE, "xor", <<>>)) =>
    /\ lastOp.op = "write" => Item # Some(_xorEncrypt(Payload, <<>>))
    /\ lastOp.op = "read" => lastOp.ret.kind # "string"

\* C16, where it fails: xor without a key; the write has stored the hex digits of
\* the plain payload, and the read that follows returns the value written.
C16_StoredUnderEmptyKey ==
  /\ _config.storage.encryption = Some(Encryption(TRUE, "xor", <<>>))
  /\ ReadFollowsWrite
  /\ lastOp.ret = RetString(lastOp.prev.value)
  /\ Item = Some(_encodeHex(JSONstringify(
                [value |-> lastOp.prev.value,
                 timestamp |-> IF ExpirationSet(_config) THEN Some(lastOp.prev.at) ELSE None])))

\* C30: the timestamp and the expiration of two configurations. A read of the key
\* that finds an envelope without a timestamp while an expiration T is set takes the
\* timestamp as 0: after time T it removes the item and returns null, up to T it
\* returns the value and keeps the item. A read that finds an envelope with a
\* timestamp while no expiration is set returns the value and keeps the item, at any
\* time.
C30_TimestampAcrossConfigurations ==
  [][ LET data == DataRead(webStorage, _config, _LOCAL_STORAGE_KEY)
          ret == lastOp'.ret
      IN (lastOp'.op = "read" /\ now' = now /\ data.kind = "object")
         => /\ (ExpirationSet(_config) /\ data.timestamp = None)
                 => IF now > _config.storage.expiration[1]
                      THEN ret = RetNull /\ Item' = None
                      ELSE ret = RetString(data.value) /\ Item' = Item
            /\ (~ExpirationSet(_config) /\ data.timestamp # None)
                 => ret = RetString(data.value) /\ Item' = Item ]_vars

\* C30, a state where it applies: under an expiration, a read later than the
\* expiration has found an envelope without a timestamp; it has returned null and the
\* item is gone.
C30_UnstampedExpired ==
  /\ lastOp.op = "read"
  /\ lastOp.prev.op = "unstamped"
  /\ ExpirationSet(_config)
  /\ lastOp.at > _config.storage.expiration[1]
  /\ lastOp.ret = RetNull
  /\ Item = None

(***************************************************************************)
(* Properties of the toggler in a page (Spec)                              *)
(***************************************************************************)
\* The theme the document shows for the token t: that of the operating system for
\* system, t itself for light and dark.
Effective(t) ==
  IF t = SystemValue THEN (IF prefersDark THEN DarkValue ELSE LightValue) ELSE t

\* The token t is published: its item alone is active in the dropdown, the document
\* has the theme of t and the button the icon of t.
Published(t) ==
  /\ controls # <<>>
  /\ controls[1].active = {t}
  /\ dataBsTheme = Some(Effective(t))
  /\ controls[1].icon = (IF t = SystemValue THEN IconSystem
                         ELSE IF t = LightValue THEN IconLight ELSE IconDark)

\* The key holds an envelope whose value is v, as _getStorage decodes and parses it.
HoldsEnvelope(v) ==
  LET data == DataRead(webStorage, _config, _LOCAL_STORAGE_KEY) IN
  data.kind = "object" /\ data.value = v

\* run() has just completed (time apart, nothing has happened since).
Started == lastOp.op = "started"

\* The step in which a run() completes, and the token it hands to _updateTheme.
StartCompletes == lastOp'.op = "started" /\ listeners' = listeners + 1
StartToken == IF lastOp.ret = RetNull THEN RetString(SystemValue) ELSE lastOp.ret

\* C2: the user's choice is remembered. When a run() completes after the user has
\* selected t, under any storage configuration, within the expiration window of the
\* selection and with no other script writing the key in between, the active item
\* is t and the document has the theme of t.
C2_ChoiceRemembered ==
  ( /\ Started
    /\ chosen # None
    /\ ~(ExpirationSet(_config) /\ now - chosen[1].at > _config.storage.expiration[1]) )
  => (controls # <<>> /\ controls[1].active = {chosen[1].value}
        /\ dataBsTheme = Some(Effective(chosen[1].value)))

\* C2, where it fails: the method none, the user has selected dark, the page is
\* loaded again and run() completes with no item active and no theme on the document.
C2_ChoiceLost ==
  /\ Started
  /\ chosen # None /\ chosen[1].value = DarkValue
  /\ _config.storage.encryption = Some(Encryption(TRUE, "none", <<>>))
  /\ lastOp.ret = RetUndefined
  /\ controls # <<>> /\ controls[1].active = {}
  /\ dataBsTheme = None

\* C4: when run() finds no usable token under the key (the key is absent, or the
\* envelope has expired: _getStorage returns null), it publishes system, and the
\* store then holds an envelope whose value is system.
C4_DefaultsToSystem ==
  (Started /\ lastOp.ret = RetNull /\ _config.storage.encryption # None)
  => /\ Published(SystemValue)
     /\ HoldsEnvelope(SystemValue)

\* C4 for the configurations with a sound codec: the same statement holds.
C4_DefaultsToSystemSoundCodec ==
  (Started /\ lastOp.ret = RetNull /\ SoundCodec(_config))
  => /\ Published(SystemValue)
     /\ HoldsEnvelope(SystemValue)

\* C4, where it fails: the method none and no item under the key; run() publishes
\* system and leaves the text of an unserialised object under the key.
C4_DefaultNotStored ==
  /\ Started /\ lastOp.ret = RetNull
  /\ _config.storage.encryption = Some(Encryption(TRUE, "none", <<>>))
  /\ Published(SystemValue)
  /\ Item = Some(ObjectObject)

C6_UnknownTokenChangesNothing ==
  [][ (StartCompletes /\ lastOp'.ret.kind = "string" /\ lastOp'.ret.str \notin ThemeValues)
        => /\ webStorage' = webStorage
           /\ dataBsTheme' = dataBsTheme
           /\ controls' = controls ]_vars

\* C6, where it fails: run() has read the token blue, and the dropdown that had
\* published a theme has no active item.
C6_ActiveItemCleared ==
  /\ Started /\ lastOp.ret = RetString(BlueValue)
  /\ dataBsTheme # None
  /\ controls[1].active = {}

\* C7: run() always ends with a valid theme. Whatever the key held (nothing, text
\* that does not parse or decode, an expired envelope, an envelope whose value is no
\* theme) and however the translations were fetched, once run() has completed the
\* document's theme is light or dark and exactly one item of the dropdown is active.
C7_StartEndsValid ==
  (Started /\ SoundCodec(_config))
  => /\ dataBsTheme \in {Some(LightValue), Some(DarkValue)}
     /\ controls # <<>>
     /\ Cardinality(controls[1].active) = 1

\* C7, where it fails: the key held an envelope with the value blue when the page
\* was loaded; run() has completed, the document has no theme and no item is active.
C7_NoThemeAfterStart ==
  /\ Started /\ lastOp.ret = RetString(BlueValue)
  /\ SoundCodec(_config)
  /\ dataBsTheme = None
  /\ controls # <<>> /\ controls[1].active = {}

\* The dropdowns inside the root of the page's options.
BoundControls == InRoot(controls, ResolveRoot(Merge(DefaultConfig, options)))

\* C8: the root never holds more than one dropdown, and once run() has been called,
\* however often and whether or not an earlier call still awaits its translations,
\* it holds exactly one.
C8_OneControlPerRoot ==
  /\ Cardinality(BoundControls) <= 1
  /\ listeners + Len(SelectSeq(pending, LAMBDA c : c.op = "run")) >= 1
       => (Cardinality(BoundControls) = 1 /\ Len(controls) = 1)

\* C8, its cases: two calls of run() await their translations at once, and the
\* root holds one dropdown.
C8_OverlappingStarts ==
  /\ Len(pending) = 2
  /\ pending[1].op = "run" /\ pending[2].op = "run"
  /\ Cardinality(BoundControls) = 1

\* C9: a second run() is a no-op. Neither the call of run() on a page where a run()
\* has completed, nor its completion, changes the stored item, the configuration
\* (its translations included) or the number of click listeners; so there is never
\* more than one listener to handle a click.
C9_SecondStartNoOp ==
  [][ ( listeners >= 1 /\ lastOp'.op \in {"run", "started"}
        /\ Len(pending') # Len(pending) )
      => (webStorage' = webStorage /\ _config' = _config /\ listeners' = listeners) ]_vars

\* C9, where it fails: run() has completed twice, and two listeners handle each click.
C9_TwoListeners ==
  /\ Started
  /\ listeners = 2

\* C11: the options of run() are merged over the defaults field by field. Once
\* run() has been called, a storage option without a type has the type local and one
\* without an encryption object the default encryption; an i18n option without a
\* default has the default en and one without autoDetect has detection off; and
\* under such options the store works: the token of a selection is in the store.
C11_MergedFieldByField ==
  lastOp.op \in {"run", "started", "click"} =>
    /\ options.storage # None =>
          /\ options.storage[1].type = "undefined" => _config.storage.type = "local"
          /\ options.storage[1].encryption = None =>
                _config.storage.encryption = Some(Encryption(TRUE, "xor", <<>>))
          /\ (options.storage[1].encryption = None /\ lastOp.op = "click")
                => HoldsEnvelope(lastOp.value)
    /\ options.i18n # None =>
          /\ options.i18n[1].default = None => _config.i18n.default = Some(En)
          /\ options.i18n[1].autoDetect = None => _config.i18n.autoDetect = Some("false")
          /\ (options.i18n[1].default = None /\ lastOp.op = "click")
                => HoldsEnvelope(lastOp.value)

\* C11, where it fails: the storage option has the expiration alone; after run() the
\* configuration has no encryption object, and the selection of dark has changed the
\* document and left nothing in the store.
C11_EncryptionDefaultLost ==
  /\ options.storage = Some(StorageConfig("undefined", Some(ExpirationT), None))
  /\ lastOp.op = "click" /\ lastOp.value = DarkValue
  /\ _config.storage.encryption = None
  /\ dataBsTheme = Some(DarkValue)
  /\ Item = None

\* C18: run() registers for the changes of the operating system's colour scheme.
\* When the scheme changes on a page where run() has completed, with no other event:
\* while the stored token is system the theme of the document becomes that of the new
\* scheme; while it is light or dark the theme of the document stays as it is.
C18_FollowsPreference ==
  [][ (listeners > 0 /\ prefersDark' # prefersDark) =>
        /\ HoldsEnvelope(SystemValue)
              => dataBsTheme' = Some(IF prefersDark' THEN DarkValue ELSE LightValue)
        /\ (HoldsEnvelope(LightValue) \/ HoldsEnvelope(DarkValue))
              => dataBsTheme' = dataBsTheme ]_vars

\* C18, where it fails: system is stored and published, the operating system has
\* changed to dark, and the document is still light.
C18_ThemeIgnoresPreference ==
  /\ lastOp.op = "preferenceChange"
  /\ listeners > 0
  /\ prefersDark
  /\ HoldsEnvelope(SystemValue)
  /\ controls # <<>> /\ controls[1].active = {SystemValue}
  /\ dataBsTheme = Some(LightValue)

\* C21: the store holds the token, never the theme derived from it. After a
\* selection of t, and after a run() that read t or defaulted to system, an envelope
\* under the key has the value t, and under every configuration whose codec has a
\* branch the key does hold such an envelope: system after system is selected,
\* whether the operating system prefers dark or light.
C21_StoreHoldsToken ==
  lastOp.op \in {"click", "started"} =>
    LET token == IF lastOp.op = "click" THEN RetString(lastOp.value) ELSE StartToken
        data == DataRead(webStorage, _config, _LOCAL_STORAGE_KEY)
    IN (token.kind = "string" /\ token.str \in ThemeValues) =>
         /\ data.kind = "object" => data.value = token.str
         /\ SoundCodec(_config) => data.kind = "object"

\* C21, its cases: system has been selected while the operating system prefers dark;
\* the document is dark and the envelope under the key has the value system.
C21_SystemStoredWhileDark ==
  /\ lastOp.op = "click" /\ lastOp.value = SystemValue
  /\ prefersDark
  /\ dataBsTheme = Some(DarkValue)
  /\ HoldsEnvelope(SystemValue)
  /\ ~HoldsEnvelope(DarkValue)

\* C24: with one dropdown, no failing store and no other script writing the key,
\* the store, the dropdown and the document agree after every selection. The step
\* of a selection of t, and the step in which run() completes with the token t,
\* leave the envelope of t under the key, t as the one active item, the icon of t
\* on the button and on the document the theme that t resolves to under the colour
\* scheme of that moment; and neither the passing of time nor a later change of the
\* colour scheme changes any of them.
C24_SelectionConsistent ==
  [][ /\ (lastOp'.op = "click" /\ Len(controls) = 1 /\ SoundCodec(_config))
           => /\ HoldsEnvelope(lastOp.value)'
              /\ Published(lastOp.value)'
              /\ Cardinality(controls'[1].active) = 1
      /\ ( /\ StartCompletes /\ Len(controls) = 1 /\ SoundCodec(_config')
           /\ StartToken'.kind = "string" /\ StartToken'.str \in ThemeValues )
           => /\ HoldsEnvelope(StartToken.str)'
              /\ Published(StartToken.str)'
              /\ Cardinality(controls'[1].active) = 1
      /\ (prefersDark' # prefersDark \/ now' # now)
           => (webStorage' = webStorage /\ dataBsTheme' = dataBsTheme /\ controls' = controls)
    ]_vars

\* C24, its cases: after an earlier selection, light has been selected while the
\* operating system prefers dark, under a configuration with an expiration: the
\* store holds light, light alone is active and the document is light.
C24_LightSelectedLater ==
  /\ lastOp.op = "click" /\ lastOp.value = LightValue
  /\ prefersDark
  /\ ExpirationSet(_config) /\ SoundCodec(_config)
  /\ now > 0
  /\ Len(controls) = 1
  /\ HoldsEnvelope(LightValue)
  /\ Published(LightValue)

\* C25: every publication of a theme rewrites the envelope with the time of the
\* publication, that of a run() included. With an expiration T (and a codec that has
\* a branch): after a selection and after a run() that publishes a theme, the
\* envelope under the key has the present time as its timestamp; and a run() that
\* completes less than T after the envelope was written reads its token. So a token
\* is kept while consecutive runs are less than T apart, however long ago it was
\* selected.
C25_WindowFromLastPublication ==
  [][ (ExpirationSet(_config') /\ SoundCodec(_config')) =>
        /\ ( /\ (lastOp'.op = "click" /\ now' = now) \/ StartCompletes
             /\ lastOp'.op = "started" =>
                   (StartToken'.kind = "string" /\ StartToken'.str \in ThemeValues) )
             => LET data == DataRead(webStorage', _config', _LOCAL_STORAGE_KEY) IN
                data.kind = "object" /\ data.timestamp = Some(now')
        /\ StartCompletes =>
             LET old == DataRead(webStorage, _config', _LOCAL_STORAGE_KEY) IN
             ( /\ old.kind = "object" /\ old.timestamp # None
               /\ now - old.timestamp[1] < _config'.storage.expiration[1] )
             => lastOp'.ret = RetString(old.value) ]_vars

\* C25, its cases: run() has completed and read the token the user selected longer
\* ago than the expiration, and the envelope has the present time as its timestamp.
C25_KeptBeyondWindow ==
  /\ Started
  /\ chosen # None
  /\ ExpirationSet(_config) /\ SoundCodec(_config)
  /\ now - chosen[1].at > _config.storage.expiration[1]
  /\ lastOp.ret = RetString(chosen[1].value)
  /\ DataRead(webStorage, _config, _LOCAL_STORAGE_KEY).timestamp = Some(now)

\* C28: a selection made while run() awaits its translations is not lost. When
\* run() completes right after a click on the item t that no listener handled (under
\* a configuration whose codec has a branch), t is published and the store holds t.
C28_EarlySelectionKept ==
  (Started /\ lastOp.prev.op = "clickUnheard" /\ SoundCodec(_config))
  => (Published(lastOp.prev.value) /\ HoldsEnvelope(lastOp.prev.value))

\* C28, where it fails: the user clicked on dark while run() awaited the response
\* for its translations; run() has completed, system is published and stored, and
\* nothing of the selection is left.
C28_EarlySelectionLost ==
  /\ Started
  /\ lastOp.prev.op = "clickUnheard" /\ lastOp.prev.value = DarkValue
  /\ SoundCodec(_config)
  /\ Published(SystemValue)
  /\ HoldsEnvelope(SystemValue)
  /\ chosen = None

\* C29: the menu is in the language of the page. When run() has completed, each of
\* the three items of the dropdown reads the entry that the translations in use have
\* for it, and the English literal when they have none.
C29_ItemsOfTableInUse ==
  LET translations == _config.i18n.translations
      ItemLabel(k) == IF k \in DOMAIN translations.props /\ translations.props[k].kind = "string"
                        THEN translations.props[k].str
                        ELSE EnglishTable[k]
  IN (Started /\ controls # <<>>) => \A k \in ThemeValues : controls[1].items[k] = ItemLabel(k)

\* C29, where it fails: run() has completed with the cs table in use and system
\* active; the button reads the cs label of system, the items read System, Light
\* and Dark.
C29_CzechButtonEnglishItems ==
  /\ Started
  /\ \A k \in ThemeValues : Get(_config.i18n.translations, k) = StringValue(CzechTable[k])
  /\ Published(SystemValue)
  /\ controls[1].text = CzechTable[SystemValue]
  /\ controls[1].items = EnglishTable

(***************************************************************************)
(* Properties of a page with several dropdowns (RootsSpec)                 *)
(***************************************************************************)
\* C17: the dropdowns under different roots stay synchronised. After a selection of
\* the token t in any of them, every dropdown has t as its one active item and shows
\* the icon and the label of t, and the document has the theme of t.
C17_ControlsSynchronized ==
  lastOp.op = "click" =>
    /\ dataBsTheme = Some(Effective(lastOp.value))
    /\ \A j \in 1..Len(controls) :
          /\ controls[j].active = {lastOp.value}
          /\ controls[j].icon = (IF lastOp.value = SystemValue THEN IconSystem
                                 ELSE IF lastOp.value = LightValue THEN IconLight
                                 ELSE IconDark)
          /\ controls[j].text = EnglishTable[lastOp.value]

\* C17, where it fails: two dropdowns, one in "#a" and one in "#b"; after the
\* selection of dark the first shows dark and the second is as it was built.
C17_SecondControlStale ==
  /\ lastOp.op = "click" /\ lastOp.value = DarkValue
  /\ Len(controls) = 2
  /\ controls[1].root = "#a" /\ controls[2].root = "#b"
  /\ controls[1].active = {DarkValue} /\ controls[1].icon = IconDark
  /\ controls[2].active = {} /\ controls[2].icon = IconSystem /\ controls[2].text = "System"

(***************************************************************************)
(* Properties of a selection step by step (StepsSpec)                      *)
(***************************************************************************)
\* C22: within a selection the store is written before the result is published.
\* At no point of the selection of t, and at no point after it, do the document and
\* the dropdown show t while the store has not been written: whenever t is published
\* (under a configuration whose codec has a branch) the key holds the envelope of t.
C22_WrittenBeforePublished ==
  ( /\ lastOp.op \in {"applying", "click"}
    /\ Published(lastOp.value)
    /\ SoundCodec(_config) )
  => HoldsEnvelope(lastOp.value)

\* C22, where it fails: the listener is at its call of _setStorage for the selection
\* of dark; the document is dark, the item dark is active with the moon icon, and
\* the store still holds system.
C22_PublishedNotWritten ==
  /\ lastOp.op = "applying" /\ lastOp.value = DarkValue
  /\ Published(DarkValue)
  /\ SoundCodec(_config)
  /\ HoldsEnvelope(SystemValue)

(***************************************************************************)
(* Properties of a page that switches languages (LocaleSpec)               *)
(***************************************************************************)
\* What the configuration given to run() has under the language lang in
\* i18n.translations: the options merged over the static _config.
Configured(lang) == Get(Merge(DefaultConfig, options).i18n.translations, lang)

\* C10: for every language L that the configuration given to run() maps to an inline
\* table, a setLanguage(L) called after run() has completed makes the table of L the
\* translations in use, whatever was in use before; and a selection of t that
\* follows gives the button the label of t in the table of L.
C10_SetLanguageUsesInlineTable ==
  /\ (lastOp.op = "languageSet" /\ Configured(lastOp.value).kind = "object")
       => _config.i18n.translations = TableTranslations(Configured(lastOp.value).obj)
  /\ ( /\ lastOp.op = "click" /\ lastOp.prev.op = "languageSet"
       /\ Configured(lastOp.prev.value).kind = "object"
       /\ lastOp.value \in DOMAIN Configured(lastOp.prev.value).obj )
       => controls[1].text = Configured(lastOp.prev.value).obj[lastOp.value]

\* C10, where it fails: the translations of the readme (a table for cs alone),
\* setLanguage('cs') after run(), then a click on light: the button reads 'Light',
\* not the label of the cs table.
C10_EnglishLabelAfterCs ==
  /\ lastOp.op = "click" /\ lastOp.value = LightValue
  /\ lastOp.prev.op = "languageSet" /\ lastOp.prev.value = Cs
  /\ Configured(Cs) = ObjectValue(CzechTable)
  /\ _config.i18n.translations = ObjectTranslations(EmptyObject)
  /\ controls[1].text = "Light"

\* C14: when the translations of the language are at a URL and the fetch fails
\* (the response is not ok, or the fetch or the parsing of the response throws), the
\* call of run() or setLanguage() that awaited it completes with the table of the
\* default language as the translations, or with the empty table when the
\* configuration has none; the same for every kind of failure.
C14_FetchFailureFallsBack ==
  [][ \A i \in 1..Len(pending) : \A kind \in {"notOk", "throws"} :
        ( /\ pending[i].fetch
          /\ RunResume(i, FetchFails(kind)) \/ SetLanguageResume(i, FetchFails(kind)) )
        => _config'.i18n.translations =
             (IF Get(pending[i].tc, DefaultName(_config)).kind = "object"
                THEN TableTranslations(Get(pending[i].tc, DefaultName(_config)).obj)
                ELSE ObjectTranslations(EmptyObject)) ]_vars

\* C14, where it fails: run() has completed after a fetch of the cs table, and the
\* translations in use are the URL itself.
C14_UrlAsTranslations ==
  /\ Started
  /\ Configured(Cs) = StringValue("lang/cs.json")
  /\ _config.i18n.translations = StringTranslations("lang/cs.json")

\* C19: setLanguage changes labels only. The step in which a setLanguage() completes
\* leaves the storage and the theme of the document as they are, and the dropdown's
\* active item and icon; each item gets the label that the new translations have for
\* it, or its English literal when they have none.
C19_SetLanguageChangesLabelsOnly ==
  [][ ( /\ lastOp'.op \in {"languageSet", "languageSetEarly"}
        /\ Len(pending') = Len(pending) - 1 )
      => /\ webStorage' = webStorage
         /\ dataBsTheme' = dataBsTheme
         /\ Len(controls') = Len(controls)
         /\ controls # <<>> =>
               /\ controls'[1].active = controls[1].active
               /\ controls'[1].icon = controls[1].icon
               /\ \A k \in ThemeValues :
                     controls'[1].items[k] =
                       (IF Get(_config'.i18n.translations, k).kind = "string"
                          THEN Get(_config'.i18n.translations, k).str
                          ELSE EnglishTable[k]) ]_vars

\* C19, where it fails: a setLanguage('cs') has completed with a fetched table whose
\* labels are empty strings, and the items have the English literals (the matter of
\* C23); the store, the theme and the active item are as the selection of dark left
\* them.
C19_EmptyLabelsNotSet ==
  /\ lastOp.op \in {"languageSet", "languageSetEarly"} /\ lastOp.value = Cs
  /\ _config.i18n.translations = TableTranslations(Table("", "", ""))
  /\ controls # <<>> /\ controls[1].items = EnglishTable
  /\ controls[1].active = {DarkValue} /\ controls[1].icon = IconDark
  /\ dataBsTheme = Some(DarkValue)
  /\ HoldsEnvelope(DarkValue)

\* C23: the label published for a token is the entry of the translations in use
\* when they have the key, and the English literal System, Light or Dark when they
\* lack it: on the button after a selection, and on the three items after a
\* setLanguage(), for complete tables and tables that lack keys.
C23_LabelOfTableOrLiteral ==
  LET translations == _config.i18n.translations
      Label(k) == IF k \in DOMAIN translations.props /\ translations.props[k].kind = "string"
                    THEN translations.props[k].str
                    ELSE EnglishTable[k]
  IN /\ lastOp.op = "click" => controls[1].text = Label(lastOp.value)
     /\ (lastOp.op \in {"languageSet", "languageSetEarly"} /\ controls # <<>>)
          => \A k \in ThemeValues : controls[1].items[k] = Label(k)

\* C23, where it fails: the table in use has the key light with an empty string as
\* its label; light has been selected and the button reads 'Light'.
C23_EmptyLabelNotPublished ==
  /\ lastOp.op = "click" /\ lastOp.value = LightValue
  /\ LightValue \in DOMAIN _config.i18n.translations.props
  /\ _config.i18n.translations.props[LightValue] = StringValue("")
  /\ controls[1].text = "Light"

\* C26: the button follows a change of language. When a setLanguage() completes on
\* a page where run() has completed, the button shows the label that the new
\* translations have for the active item (its English literal when they have none)
\* and keeps its icon; and in every state of such a page the icon and the label of
\* the button are those of one token.
C26_ButtonLabelOfSelected ==
  (listeners > 0 /\ controls # <<>>) =>
    LET translations == _config.i18n.translations
        Label(k) == IF Get(translations, k).kind = "string" /\ Get(translations, k).str # ""
                      THEN Get(translations, k).str
                      ELSE EnglishTable[k]
        Icon(k) == IF k = SystemValue THEN IconSystem
                   ELSE IF k = LightValue THEN IconLight ELSE IconDark
        Labels(k) == {EnglishTable[k], CzechTable[k]}
                       \cup {PartialTable[j] : j \in {k} \cap DOMAIN PartialTable}
    IN /\ lastOp.op \in {"languageSet", "languageSetEarly"} =>
             \A k \in ThemeValues :
                controls[1].active = {k} =>
                  (controls[1].text = Label(k) /\ controls[1].icon = Icon(k))
       /\ \A k \in ThemeValues : controls[1].icon = Icon(k) => controls[1].text \in Labels(k)

\* C26, where it fails: dark is selected, a setLanguage('cs') has completed with the
\* cs table, and the button shows the moon icon with the label of system.
C26_MoonIconSystemLabel ==
  /\ lastOp.op \in {"languageSet", "languageSetEarly"} /\ lastOp.value = Cs
  /\ listeners > 0
  /\ _config.i18n.translations = TableTranslations(CzechTable)
  /\ controls # <<>> /\ controls[1].active = {DarkValue}
  /\ controls[1].icon = IconDark
  /\ controls[1].text = CzechTable[SystemValue]

\* C27: the last call of setLanguage wins. When setLanguage(a) and then
\* setLanguage(b) are called while the fetch of a is in flight and b completes
\* first, the completion of a leaves the translations in use and the labels shown
\* as b set them.
C27_LastCallWins ==
  [][ ( /\ Len(pending') = Len(pending) - 1
        /\ lastOp'.op \in {"languageSet", "languageSetEarly"}
        /\ lastOp'.prev.op = "overtaken" )
      => /\ _config'.i18n.translations = _config.i18n.translations
         /\ controls' = controls ]_vars

\* C27, where it fails: setLanguage('cs') was called first and has completed last,
\* right after the setLanguage('de') called after it; the cs table is in use and the
\* items have its labels.
C27_FirstCallShown ==
  /\ lastOp.op \in {"languageSet", "languageSetEarly"} /\ lastOp.value = Cs
  /\ lastOp.prev.op = "overtaken" /\ lastOp.prev.value = Str(<<"d","e">>)
  /\ \A i \in 1..Len(pending) : pending[i].op # "setLanguage"
  /\ _config.i18n.translations = TableTranslations(CzechTable)
  /\ controls # <<>> /\ controls[1].items = CzechTable

C20_DetectLanguage ==
  lastOp.op = "run" =>
    lastOp.value =
      (IF _config.i18n.autoDetect = Some("browser") THEN
         IF env.language = <<>> THEN DefaultName(_config)
         ELSE CHOOSE sub \in {SubSeq(env.language, 1, n) : n \in 0..Len(env.language)} :
                /\ \A j \in 1..Len(sub) : sub[j] # Ord("-")
                /\ Len(sub) = Len(env.language) \/ env.language[Len(sub) + 1] = Ord("-")
       ELSE IF _config.i18n.autoDetect = Some("document") THEN
         IF env.lang = <<>> THEN DefaultName(_config) ELSE env.lang
       ELSE DefaultName(_config))

\* C20, its cases: autoDetect is browser, the browser reports en-US, and run() has
\* asked for the translations of en.
C20_PrimarySubtagDetected ==
  /\ lastOp.op = "run"
  /\ _config.i18n.autoDetect = Some("browser")
  /\ env.language = Str(<<"e","n","-","U","S">>)
  /\ lastOp.value = En

====
